---- MODULE Spec2Model ----
(***************************************************************************)
(* A model of src/script.py: the script that keeps a Spotify playlist in   *)
(* step with the UK number-one singles scraped from Wikipedia.             *)
(*                                                                         *)
(* The state is the script's module-level state (added_tracks,             *)
(* track_cache, existing_playlist_tracks, added_song_artist_pairs,         *)
(* not_found_pairs), the locals of the function that is running, the       *)
(* three JSON files, and the two external collaborators the script talks   *)
(* to: the web pages (web) and the live playlist (playlist).  One action   *)
(* is one external call together with the code that runs up to the next    *)
(* external call.  An external call's outcome (a page's status, a search   *)
(* result, a time-out, another exception) is chosen by the environment.    *)
(* The locals of the harvest and of add_song_to_playlist are reset when    *)
(* the function returns; those of the reorder pass keep their last value.  *)
(*                                                                         *)
(* In Spec and SpecBulk a search is its outcome, any track id or None.     *)
(* SpecSearch is search_spotify_track itself, one query per step;          *)
(* SpecScore is the score of one candidate; SpecText is clean_song_title   *)
(* and base_artist_key on texts, character by character.  In these three   *)
(* the script proper is at rest, and fn, arg and res hold the function,    *)
(* its arguments and what it returned.                                     *)
(***************************************************************************)
EXTENDS Integers, Sequences, FiniteSets, TLC

VARIABLES
    DEBUG,                    \* line 32
    RUN_ACTION,               \* line 33: ACTION (a reserved word of TLA+)
    web,                      \* the rows of the wikitable tables of each page
    playlist,                 \* the live playlist on the streaming service
    added_tracks,             \* line 101-105
    track_cache,              \* line 107-111
    existing_playlist_tracks, \* line 127
    added_song_artist_pairs,  \* line 497
    not_found_pairs,          \* line 498
    data_file,                \* the content of DATA_FILE
    cache_file,               \* the content of CACHE_FILE
    not_found_file,           \* the content of NOT_FOUND_FILE
    pc,                       \* where the script is
    phase,                    \* which part of __main__ runs: backfill, latest, reorder
    url_i,                    \* get_all_number_ones_from_decades: index of the next url
    all_songs,                \* get_all_number_ones_from_decades: all_songs
    songs,                    \* __main__: songs (or the latest entry, when it is processed)
    idx,                      \* __main__: index of the entry being processed
    latest,                   \* __main__: latest
    track_id,                 \* add_song_to_playlist: track_id
    attempt,                  \* add_song_to_playlist: attempt
    all_songs_sorted,         \* reorder_playlist_chronologically: all_songs_sorted
    ridx,                     \* reorder_playlist_chronologically: index of s
    track_ids_sorted,         \* reorder_playlist_chronologically: track_ids_sorted
    unique_pairs,             \* reorder_playlist_chronologically: unique_pairs
    seen_track_ids,           \* reorder_playlist_chronologically: seen_track_ids
    batch_i,                  \* reorder_playlist_chronologically: i of the batch loop
    exc,                      \* the function an uncaught exception left, "" if none
    io,                       \* history: the external calls of the latest step
    trace,                    \* history: the parts of __main__ entered so far
    loaded_tracks,            \* history: added_tracks as loaded from DATA_FILE
    fetched_tracks,           \* history: existing_playlist_tracks as fetched at start
    appended,                 \* history: ids appended by add_song_to_playlist
    playlist_before,          \* history: the playlist when the reorder pass began
    fn,                       \* the function that is run on its own, "" if none
    arg,                      \* the arguments it is run on
    res,                      \* the values it has returned so far
    query_i,                  \* search_spotify_track: index of the next query
    best,                     \* search_spotify_track: best
    best_score,               \* search_spotify_track: best_score
    scored                    \* history: the items of the latest search, scored

\* The state of the script proper.
scriptVars ==
        << DEBUG, RUN_ACTION, web, playlist, added_tracks, track_cache,
           existing_playlist_tracks, added_song_artist_pairs, not_found_pairs,
           data_file, cache_file, not_found_file, pc, phase, url_i, all_songs,
           songs, idx, latest, track_id, attempt, all_songs_sorted, ridx,
           track_ids_sorted, unique_pairs, seen_track_ids, batch_i, exc, io,
           trace, loaded_tracks, fetched_tracks, appended, playlist_before >>

\* The state of a function that is run on its own.
callVars == << fn, arg, res, query_i, best, best_score, scored >>

vars == << scriptVars, callVars >>

-----------------------------------------------------------------------------
(* Bounds of the model.                                                    *)

\* The number of distinct catalog track ids a search can return.
MaxTrack == 2

\* The longest chart a bulk rebuild harvests (two full batches and a rest).
MaxBulk == 201

-----------------------------------------------------------------------------
(* Program constants.                                                      *)

\* datetime(1996, 2, 7), as the number yyyymmdd: dates are only compared.
START_DATE == 19960207

\* The attempts of the append loop: range(3).
MaxAttempts == 3

\* time.sleep(2) after a time-out.
BackoffSeconds == 2

\* The batch size of the rebuild: range(0, len(track_ids_sorted), 100).
BatchSize == 100

\* Python's None.
None == "None"

DATA_FILE == "added_tracks.json"
CACHE_FILE == "track_cache.json"
NOT_FOUND_FILE == "not_found.json"

Min(a, b) == IF a < b THEN a ELSE b

Range(s) == { s[i] : i \in 1..Len(s) }

NoDuplicates(s) == \A i, j \in 1..Len(s) : s[i] = s[j] => i = j

\* A catalog track id.
TrackName(i) == "t" \o ToString(i)

TrackIds == { TrackName(i) : i \in 1..MaxTrack }

\* An external call, as the history variable io records it.
Call(op, items) == [op |-> op, items |-> items, secs |-> 0]

Sleep(secs) == [op |-> "time.sleep", items |-> << >>, secs |-> secs]

Write(file) == [op |-> "write " \o file, items |-> << >>, secs |-> 0]

-----------------------------------------------------------------------------
(* The text normalizer, on the titles and credits the model's pages hold.  *)
(* Each value is what the Python function returns on that string; a title  *)
(* made of digits only ("17") has no quote, bracket, tag or upper-case     *)
(* letter, and every function below returns it as it is.                   *)

clean_song_title(song) ==
    CASE song = "\"Hit\"" -> "Hit"
      [] song = "\"Hit - Radio Edit\"" -> "Hit - Radio Edit"
      [] song = "\"Song\"" -> "Song"
      [] song = "\"Old\"" -> "Old"
      [] OTHER -> song

base_song_key(song) ==
    CASE song = "Hit" -> "hit"
      [] song = "Hit - Radio Edit" -> "hit"
      [] song = "Song" -> "song"
      [] song = "Old" -> "old"
      [] OTHER -> song

clean_artist_name(artist) ==
    CASE artist = "Y feat. Z" -> "Y"
      [] artist = "X & W" -> "X"
      [] OTHER -> artist

base_artist_key(artist) ==
    CASE artist = "X" -> "x"
      [] artist = "Y" -> "y"
      [] artist = "W" -> "w"
      [] OTHER -> artist

\* f"{base_song_key(song)}|{base_artist_key(artist)}"
pair_key(song, artist) == base_song_key(song) \o "|" \o base_artist_key(artist)

-----------------------------------------------------------------------------
(* The chart pages.  A row is a table row whose date parsed.               *)

Row(date, song, artist) ==
    [date |-> date, original_song |-> song, original_artist |-> artist]

decade_urls == IF DEBUG THEN << "2020s" >>
               ELSE << "1990s", "2000s", "2010s", "2020s" >>

RowOld == Row(19960206, "\"Old\"", "W")
RowHit == Row(19960207, "\"Hit\"", "X")
RowSong == Row(20050101, "\"Song\"", "Y feat. Z")
RowHitAgain == Row(20210101, "\"Hit - Radio Edit\"", "X & W")

Page(p1990, p2000, p2010, p2020) ==
    [u \in {"1990s", "2000s", "2010s", "2020s"} |->
        CASE u = "1990s" -> p1990
          [] u = "2000s" -> p2000
          [] u = "2010s" -> p2010
          [] OTHER -> p2020]

\* The pages as they usually are, and pages with a table out of order and
\* an old row on the latest page.
Webs == { Page(<< RowOld, RowHit >>, << RowSong >>, << >>, << RowHitAgain >>),
          Page(<< RowSong, RowHit >>, << >>, << >>, << RowOld >>) }

\* A chart of n entries, latest first, every one a different song: entry i
\* is dated 7 February of the i-th year after 1996 and titled by its number.
BulkRow(i) == Row(START_DATE + 10000 * i, ToString(i), "X")

BulkWeb(n) == Page([i \in 1..n |-> BulkRow(n + 1 - i)], << >>, << >>, << >>)

\* The dict parse_wiki_table appends for a row.
Entry(row) ==
    [date |-> row.date,
     song |-> clean_song_title(row.original_song),
     artist |-> clean_artist_name(row.original_artist),
     original_artist |-> row.original_artist,
     original_song |-> row.original_song]

\* parse_wiki_table (lines 287-311) on the rows of a page: the rows on or
\* after START_DATE are appended to all_songs, in the order of the page.
parse_wiki_table(rows, songs_so_far) ==
    LET kept == SelectSeq(rows, LAMBDA r : r.date >= START_DATE)
    IN  songs_so_far \o [i \in 1..Len(kept) |-> Entry(kept[i])]

\* sorted(all_songs, key=lambda x: x["date"]): a stable sort.  An entry
\* comes after the entries of an earlier date and after those of the same
\* date that stood before it.
SortedByDate(s) ==
    LET place == [i \in 1..Len(s) |->
                    1 + Cardinality({ j \in 1..Len(s) :
                            \/ s[j].date < s[i].date
                            \/ s[j].date = s[i].date /\ j < i })]
    IN  [p \in 1..Len(s) |-> s[CHOOSE i \in 1..Len(s) : place[i] = p]]

\* get_latest_number_one's loop (lines 379-399): the first row with the
\* greatest date.  The result is << >> for None and << entry >> for an entry.
LatestRow(rows) ==
    IF rows = << >> THEN << >>
    ELSE LET i == CHOOSE i \in 1..Len(rows) :
                    /\ \A j \in 1..Len(rows) : rows[j].date <= rows[i].date
                    /\ \A j \in 1..(i - 1) : rows[j].date < rows[i].date
         IN  << Entry(rows[i]) >>

-----------------------------------------------------------------------------
(* The resolution cache and the catalog.                                   *)

EmptyCache == [k \in {} |-> None]

\* A lookup that never finds the key.
CacheMiss(cache, key) == None

\* track_cache.get(cache_key)
CacheGet(cache, key) == IF key \in DOMAIN cache THEN cache[key] ELSE None

\* track_cache[cache_key] = track_id
CachePut(cache, key, id) ==
    [k \in DOMAIN cache \cup {key} |-> IF k = key THEN id ELSE cache[k]]

\* What search_spotify_track can return: the catalog decides.
search_spotify_track(song, artist, original_artist, chart_date) ==
    TrackIds \cup {None}


-----------------------------------------------------------------------------
(* The initial state: the module-level code of lines 27-127 and 497-498.   *)

NoLocals ==
    /\ url_i = 1
    /\ all_songs = << >>
    /\ songs = << >>
    /\ idx = 1
    /\ latest = << >>
    /\ track_id = None
    /\ attempt = 0
    /\ all_songs_sorted = << >>
    /\ ridx = 1
    /\ track_ids_sorted = << >>
    /\ unique_pairs = {}
    /\ seen_track_ids = {}
    /\ batch_i = 0

\* The caches a previous run can have written: every value is a track id.
InitCaches ==
    { EmptyCache,
      [k \in {"hit|x"} |-> TrackName(1)],
      [k \in {"song|y"} |-> TrackName(2)],
      [k \in {"hit|x", "song|y"} |-> TrackName(1)] }

InitPlaylists ==
    { << >>, << TrackName(1) >>, << TrackName(2) >>,
      << TrackName(2), TrackName(1) >> }

InitAdded == { << >>, << TrackName(1) >>, << TrackName(2), TrackName(1) >> }

Loaded(d, a, w, p, t, c) ==
    /\ DEBUG = d
    /\ RUN_ACTION = a
    /\ web = w
    /\ playlist = p
    /\ added_tracks = t
    /\ data_file = t
    /\ loaded_tracks = t
    /\ track_cache = c
    /\ cache_file = c
    /\ existing_playlist_tracks = Range(p)
    /\ fetched_tracks = Range(p)
    /\ added_song_artist_pairs = {}
    /\ not_found_pairs = {}
    /\ not_found_file = << >>
    /\ pc = "main"
    /\ phase = ""
    /\ exc = ""
    /\ io = << >>
    /\ trace = << >>
    /\ appended = << >>
    /\ playlist_before = p
    /\ NoLocals

\* No function is run on its own.
NoCall ==
    /\ fn = ""
    /\ arg = << >>
    /\ res = << >>
    /\ query_i = 1
    /\ best = None
    /\ best_score = -1
    /\ scored = << >>

Init ==
    \E d \in BOOLEAN, a \in {"", "rebuild", "reorder", "clear"}, w \in Webs,
       p \in InitPlaylists, t \in InitAdded, c \in InitCaches :
        Loaded(d, a, w, p, t, c) /\ NoCall

-----------------------------------------------------------------------------
(* Steps shared by the actions.                                            *)

\* An exception nobody catches leaves function f and ends the process.
Raise(f, calls) ==
    /\ pc' = "aborted"
    /\ exc' = f
    /\ io' = calls

\* reorder_playlist_chronologically() is called: lines 543-547.
CallReorder ==
    /\ pc' = "harvest"
    /\ phase' = "reorder"
    /\ trace' = Append(trace, "reorder")
    /\ playlist_before' = playlist
    /\ url_i' = 1
    /\ all_songs' = << >>
    /\ all_songs_sorted' = << >>
    /\ ridx' = 1
    /\ track_ids_sorted' = << >>
    /\ unique_pairs' = {}
    /\ seen_track_ids' = {}
    /\ batch_i' = 0

\* The summary of lines 608-611 and 636-639: the pairs sorted by artist, then
\* song, in lower case.  The model's strings are ordered by this rank.
LowerRank(str) ==
    CASE str = "\"Hit - Radio Edit\"" -> 1
      [] str = "\"Hit\"" -> 2
      [] str = "\"Old\"" -> 3
      [] str = "\"Song\"" -> 4
      [] str = "W" -> 5
      [] str = "X" -> 6
      [] str = "X & W" -> 7
      [] str = "Y feat. Z" -> 8
      [] OTHER -> 9

PairBefore(a, b) ==
    \/ LowerRank(a[2]) < LowerRank(b[2])
    \/ LowerRank(a[2]) = LowerRank(b[2]) /\ LowerRank(a[1]) <= LowerRank(b[1])

Summary(pairs) ==
    CHOOSE q \in [1..Cardinality(pairs) -> pairs] :
        /\ Range(q) = pairs
        /\ \A i, j \in 1..Cardinality(pairs) : i < j => PairBefore(q[i], q[j])


configVars == << DEBUG, RUN_ACTION, web, loaded_tracks, fetched_tracks >>
beforeVars == << playlist_before >>
harvestVars == << url_i, all_songs >>
mainVars == << songs, idx, latest >>
addVars == << track_id, attempt >>
reorderVars == << all_songs_sorted, ridx, track_ids_sorted, unique_pairs,
                 seen_track_ids, batch_i >>
globalVars == << added_tracks, track_cache, existing_playlist_tracks,
                added_song_artist_pairs, not_found_pairs >>
fileVars == << data_file, cache_file, not_found_file >>

-----------------------------------------------------------------------------
(* __main__: lines 588-641.                                                *)

\* Line 592: the clear action replaces the playlist unless DEBUG is set.
ClearReplaces == ~DEBUG

\* ACTION == "clear": lines 590-600.
main_clear ==
    /\ pc = "main"
    /\ RUN_ACTION = "clear"
    /\ \E outcome \in (IF ClearReplaces THEN {"ok", "error"} ELSE {"skipped"}) :
        LET calls == IF outcome = "skipped" THEN << >>
                     ELSE << Call("playlist_replace_items", << >>) >>
        IN  IF outcome = "error"
            THEN /\ Raise("__main__", calls)
                 /\ UNCHANGED << playlist, fileVars, trace >>
            ELSE /\ playlist' = IF outcome = "ok" THEN << >> ELSE playlist
                 /\ data_file' = << >>
                 /\ not_found_file' = << >>
                 /\ io' = calls \o << Write(DATA_FILE), Write(NOT_FOUND_FILE) >>
                 /\ trace' = Append(trace, "clear")
                 /\ pc' = "done"
                 /\ UNCHANGED << cache_file, exc >>
    /\ UNCHANGED << callVars, configVars, beforeVars, globalVars, phase, harvestVars, mainVars,
                    addVars, reorderVars, appended >>

\* ACTION in ("rebuild", "reorder"): lines 603-604.
main_rebuild ==
    /\ pc = "main"
    /\ RUN_ACTION \in {"rebuild", "reorder"}
    /\ CallReorder
    /\ io' = << >>
    /\ UNCHANGED << callVars, configVars, globalVars, fileVars, playlist, mainVars,
                    addVars, exc, appended >>

\* The test of line 616 always taken.
AlwaysFirstRun(added) == TRUE

\* Line 616: "if not added_tracks".
FirstRun(added) == added = << >>

\* The first run: lines 616-618, up to the first page fetch.
main_backfill ==
    /\ pc = "main"
    /\ RUN_ACTION \notin {"clear", "rebuild", "reorder"}
    /\ FirstRun(added_tracks)
    /\ pc' = "harvest"
    /\ phase' = "backfill"
    /\ trace' = Append(trace, "backfill")
    /\ url_i' = 1
    /\ all_songs' = << >>
    /\ io' = << >>
    /\ UNCHANGED << callVars, configVars, beforeVars, globalVars, fileVars, playlist, mainVars,
                    addVars, reorderVars, exc, appended >>

\* A later run: lines 624-626, up to the fetch of the latest page.
main_latest ==
    /\ pc = "main"
    /\ RUN_ACTION \notin {"clear", "rebuild", "reorder"}
    /\ ~FirstRun(added_tracks)
    /\ pc' = "latest"
    /\ phase' = "latest"
    /\ trace' = Append(trace, "latest")
    /\ io' = << >>
    /\ UNCHANGED << callVars, configVars, beforeVars, globalVars, fileVars, playlist, harvestVars,
                    mainVars, addVars, reorderVars, exc, appended >>

\* Line 627: "if latest and latest['date'] >= START_DATE".
LatestIsEligible(l) == l # << >> /\ l[1].date >= START_DATE

\* get_latest_number_one (lines 350-402) and line 627.  A page that is not
\* fetched gives None; a requests exception is not caught.
get_latest_number_one ==
    /\ pc = "latest"
    /\ \E outcome \in {"ok", "non200", "error"} :
        LET calls == << Call("requests.get", << >>) >>
            found == IF outcome = "ok" THEN LatestRow(web["2020s"])
                     ELSE << >>
        IN  IF outcome = "error"
            THEN /\ Raise("get_latest_number_one", calls)
                 /\ UNCHANGED mainVars
            ELSE /\ latest' = found
                 /\ songs' = IF LatestIsEligible(found) THEN found ELSE << >>
                 /\ idx' = 1
                 /\ pc' = "add"
                 /\ io' = calls
                 /\ UNCHANGED exc
    /\ UNCHANGED << callVars, configVars, beforeVars, globalVars, fileVars, playlist, phase, trace,
                    harvestVars, addVars, reorderVars, appended >>

\* Lines 623 and 630: every entry is processed, the reorder pass starts.
main_reorder ==
    /\ pc = "add"
    /\ idx > Len(songs)
    /\ CallReorder
    /\ io' = << >>
    /\ UNCHANGED << callVars, configVars, globalVars, fileVars, playlist, mainVars,
                    addVars, exc, appended >>

\* Lines 605-613 and 632-641: the cache and the not-found summary are written.
main_persist ==
    /\ pc = "persist"
    /\ cache_file' = track_cache
    /\ not_found_file' = Summary(not_found_pairs)
    /\ io' = << Write(CACHE_FILE), Write(NOT_FOUND_FILE) >>
    /\ trace' = Append(trace, "persist")
    /\ pc' = "done"
    /\ UNCHANGED << callVars, configVars, beforeVars, globalVars, data_file, playlist, phase,
                    harvestVars, mainVars, addVars, reorderVars, exc, appended >>

-----------------------------------------------------------------------------
(* get_all_number_ones_from_decades: lines 318-347, one page per step.     *)
(* requests.get raises on a network failure and nothing catches it; a      *)
(* status other than 200 skips the page.  After the last page the sorted   *)
(* list is returned to the caller and the locals are gone.                 *)

get_all_number_ones_from_decades ==
    /\ pc = "harvest"
    /\ \E outcome \in {"ok", "non200", "error"} :
        LET calls == << Call("requests.get", << >>) >>
            got == IF outcome = "ok"
                   THEN parse_wiki_table(web[decade_urls[url_i]], all_songs)
                   ELSE all_songs
        IN  IF outcome = "error"
            THEN /\ Raise("get_all_number_ones_from_decades", calls)
                 /\ UNCHANGED << harvestVars, songs, idx, all_songs_sorted, ridx >>
            ELSE /\ io' = calls
                 /\ UNCHANGED exc
                 /\ IF url_i < Len(decade_urls)
                    THEN /\ url_i' = url_i + 1
                         /\ all_songs' = got
                         /\ UNCHANGED << pc, songs, idx, all_songs_sorted, ridx >>
                    ELSE /\ url_i' = 1
                         /\ all_songs' = << >>
                         /\ IF phase = "backfill"
                            THEN /\ songs' = SortedByDate(got)
                                 /\ idx' = 1
                                 /\ pc' = "add"
                                 /\ UNCHANGED << all_songs_sorted, ridx >>
                            ELSE /\ all_songs_sorted' = SortedByDate(got)
                                 /\ ridx' = 1
                                 /\ pc' = "reorder"
                                 /\ UNCHANGED << songs, idx >>
    /\ UNCHANGED << callVars, configVars, beforeVars, globalVars, fileVars, playlist, phase, trace,
                    latest, addVars, track_ids_sorted, unique_pairs,
                    seen_track_ids, batch_i, appended >>


-----------------------------------------------------------------------------
(* add_song_to_playlist: lines 500-539.                                    *)

\* Line 523 without the test of existing_playlist_tracks.
NotInAddedList(id, added, existing) == id \notin Range(added)

\* Line 523.
NotYetInPlaylist(id, added, existing) ==
    id \notin Range(added) /\ id \notin existing

\* Line 524: DEBUG only reports what it would add.
AddIsDryRun == DEBUG

\* A loop that attempts again after every time-out.
AlwaysNextAttempt(a) == TRUE

\* Line 527: "for attempt in range(3)" has another attempt after this one.
HasNextAttempt(a) == a + 1 < MaxAttempts

\* add_song_to_playlist returns to the loop of __main__.
ReturnFromAdd ==
    /\ idx' = idx + 1
    /\ pc' = "add"
    /\ track_id' = None
    /\ attempt' = 0

\* Lines 502-526: the duplicate check, the cache, the search and the test
\* whether the track is to be appended.
add_song_to_playlist ==
    /\ pc = "add"
    /\ idx <= Len(songs)
    /\ LET s == songs[idx]
           key == pair_key(s.song, s.artist)
           cached == CacheGet(track_cache, key)
       IN  IF key \in added_song_artist_pairs
           THEN /\ ReturnFromAdd
                /\ io' = << >>
                /\ UNCHANGED << track_cache, not_found_pairs >>
           ELSE \E found \in
                    (IF cached = None
                     THEN search_spotify_track(s.song, s.artist,
                                               s.original_artist, s.date)
                     ELSE {cached}) :
                /\ io' = IF cached = None THEN << Call("search", << >>) >>
                         ELSE << >>
                /\ IF found = None
                   THEN /\ not_found_pairs' = not_found_pairs \cup
                               {<< s.original_song, s.original_artist >>}
                        /\ ReturnFromAdd
                        /\ UNCHANGED track_cache
                   ELSE /\ track_cache' = IF cached = None
                                          THEN CachePut(track_cache, key, found)
                                          ELSE track_cache
                        /\ UNCHANGED not_found_pairs
                        /\ IF /\ NotYetInPlaylist(found, added_tracks,
                                                  existing_playlist_tracks)
                              /\ ~AddIsDryRun
                           THEN /\ pc' = "add_attempt"
                                /\ track_id' = found
                                /\ attempt' = 0
                                /\ UNCHANGED idx
                           ELSE ReturnFromAdd
    /\ UNCHANGED << callVars, configVars, beforeVars, fileVars, playlist, phase, trace, harvestVars,
                    songs, latest, reorderVars, exc, appended, added_tracks,
                    existing_playlist_tracks, added_song_artist_pairs >>

\* Lines 527-537: one attempt of the append.  Only ReadTimeout is caught;
\* a call that timed out has appended nothing.
playlist_add_attempt ==
    /\ pc = "add_attempt"
    /\ \E outcome \in {"ok", "timeout", "error"} :
        LET s == songs[idx]
            call == Call("playlist_add_items", << track_id >>)
        IN  CASE outcome = "ok" ->
                    /\ playlist' = Append(playlist, track_id)
                    /\ added_tracks' = Append(added_tracks, track_id)
                    /\ existing_playlist_tracks' =
                           existing_playlist_tracks \cup {track_id}
                    /\ added_song_artist_pairs' = added_song_artist_pairs \cup
                           {pair_key(s.song, s.artist)}
                    /\ appended' = Append(appended, track_id)
                    /\ io' = << call >>
                    /\ ReturnFromAdd
                    /\ UNCHANGED exc
              [] outcome = "timeout" ->
                    /\ io' = << call, Sleep(BackoffSeconds) >>
                    /\ IF HasNextAttempt(attempt)
                       THEN /\ attempt' = attempt + 1
                            /\ UNCHANGED << pc, idx, track_id >>
                       ELSE ReturnFromAdd
                    /\ UNCHANGED << playlist, added_tracks, appended, exc,
                                    existing_playlist_tracks,
                                    added_song_artist_pairs >>
              [] OTHER ->
                    /\ Raise("add_song_to_playlist", << call >>)
                    /\ UNCHANGED << playlist, added_tracks, appended, idx,
                                    existing_playlist_tracks, addVars,
                                    added_song_artist_pairs >>
    /\ UNCHANGED << callVars, configVars, beforeVars, fileVars, phase, trace, harvestVars, songs,
                    latest, reorderVars, track_cache, not_found_pairs >>

-----------------------------------------------------------------------------
(* reorder_playlist_chronologically: lines 542-585.  The harvest of line   *)
(* 544 is get_all_number_ones_from_decades with phase = "reorder".         *)

\* Line 565 without the test of seen_track_ids.
NeverQueued(id, seen) == FALSE

\* Line 565: the track id is already queued.
AlreadyQueued(id, seen) == id \in seen

\* Lines 549-570: one entry of the loop.
reorder_resolve ==
    /\ pc = "reorder"
    /\ ridx <= Len(all_songs_sorted)
    /\ LET s == all_songs_sorted[ridx]
           key == pair_key(s.song, s.artist)
           cached == CacheGet(track_cache, key)
       IN  IF key \in unique_pairs
           THEN /\ io' = << >>
                /\ UNCHANGED << unique_pairs, track_cache, not_found_pairs,
                                seen_track_ids, track_ids_sorted >>
           ELSE \E found \in
                    (IF cached = None
                     THEN search_spotify_track(s.song, s.artist,
                                               s.original_artist, s.date)
                     ELSE {cached}) :
                /\ unique_pairs' = unique_pairs \cup {key}
                /\ io' = IF cached = None THEN << Call("search", << >>) >>
                         ELSE << >>
                /\ track_cache' = IF cached = None /\ found # None
                                  THEN CachePut(track_cache, key, found)
                                  ELSE track_cache
                /\ not_found_pairs' =
                       IF found = None
                       THEN not_found_pairs \cup
                                {<< s.original_song, s.original_artist >>}
                       ELSE not_found_pairs
                /\ IF found # None /\ ~AlreadyQueued(found, seen_track_ids)
                   THEN /\ seen_track_ids' = seen_track_ids \cup {found}
                        /\ track_ids_sorted' = Append(track_ids_sorted, found)
                   ELSE UNCHANGED << seen_track_ids, track_ids_sorted >>
    /\ ridx' = ridx + 1
    /\ UNCHANGED << callVars, configVars, beforeVars, fileVars, playlist, pc, phase, trace,
                    harvestVars, mainVars, addVars, all_songs_sorted, batch_i,
                    exc, appended, added_tracks, existing_playlist_tracks,
                    added_song_artist_pairs >>

\* Lines 572-574 left out.
ReorderNeverDryRun == FALSE

\* Line 572: DEBUG only reports the reorder.
ReorderIsDryRun == DEBUG

\* Lines 576-578 left out.
NeverNothingResolved(ids) == FALSE

\* Line 576: "if not track_ids_sorted".
NothingResolved(ids) == ids = << >>

\* Lines 572-579: after the loop, the two early returns and the replace.
\* No exception of playlist_replace_items is caught.
reorder_replace ==
    /\ pc = "reorder"
    /\ ridx > Len(all_songs_sorted)
    /\ IF ReorderIsDryRun \/ NothingResolved(track_ids_sorted)
       THEN /\ pc' = "persist"
            /\ io' = << >>
            /\ UNCHANGED << playlist, batch_i, exc >>
       ELSE \E outcome \in {"ok", "error"} :
            LET calls == << Call("playlist_replace_items", << >>) >>
            IN  IF outcome = "ok"
                THEN /\ playlist' = << >>
                     /\ batch_i' = 0
                     /\ pc' = "reorder_append"
                     /\ io' = calls
                     /\ UNCHANGED exc
                ELSE /\ Raise("reorder_playlist_chronologically", calls)
                     /\ UNCHANGED << playlist, batch_i >>
    /\ UNCHANGED << callVars, configVars, beforeVars, globalVars, fileVars, phase, trace,
                    harvestVars, mainVars, addVars, all_songs_sorted, ridx,
                    track_ids_sorted, unique_pairs, seen_track_ids, appended >>

\* The slice of line 581 one id short.
ShortBatch(ids, i) == SubSeq(ids, i + 1, Min(i + BatchSize - 1, Len(ids)))

\* Line 581: track_ids_sorted[i:i+100].
Batch(ids, i) == SubSeq(ids, i + 1, Min(i + BatchSize, Len(ids)))

\* Lines 580-585: one batch of the append loop; after the last one the ids
\* are written to DATA_FILE.  No exception of playlist_add_items is caught.
reorder_append ==
    /\ pc = "reorder_append"
    /\ \E outcome \in {"ok", "error"} :
        LET calls == << Call("playlist_add_items",
                             Batch(track_ids_sorted, batch_i)) >>
        IN  IF outcome = "ok"
            THEN /\ playlist' = playlist \o Batch(track_ids_sorted, batch_i)
                 /\ UNCHANGED exc
                 /\ IF batch_i + BatchSize < Len(track_ids_sorted)
                    THEN /\ batch_i' = batch_i + BatchSize
                         /\ io' = calls
                         /\ UNCHANGED << pc, data_file >>
                    ELSE /\ data_file' = track_ids_sorted
                         /\ io' = calls \o << Write(DATA_FILE) >>
                         /\ pc' = "persist"
                         /\ UNCHANGED batch_i
            ELSE /\ Raise("reorder_playlist_chronologically", calls)
                 /\ UNCHANGED << playlist, batch_i, data_file >>
    /\ UNCHANGED << callVars, configVars, beforeVars, globalVars, cache_file, not_found_file, phase,
                    trace, harvestVars, mainVars, addVars, all_songs_sorted,
                    ridx, track_ids_sorted, unique_pairs, seen_track_ids,
                    appended >>

-----------------------------------------------------------------------------

Next ==
    \/ main_clear
    \/ main_rebuild
    \/ main_backfill
    \/ main_latest
    \/ get_latest_number_one
    \/ get_all_number_ones_from_decades
    \/ add_song_to_playlist
    \/ playlist_add_attempt
    \/ main_reorder
    \/ reorder_resolve
    \/ reorder_replace
    \/ reorder_append
    \/ main_persist

Spec == Init /\ [][Next]_vars


-----------------------------------------------------------------------------
(* The rebuild of a long chart: ACTION=rebuild with a chart of up to       *)
(* MaxBulk entries, every one resolved by the cache of an earlier run.     *)

BulkKey(i) == pair_key(clean_song_title(BulkRow(i).original_song),
                       clean_artist_name(BulkRow(i).original_artist))

BulkCache(n) ==
    [k \in { BulkKey(i) : i \in 1..n } |->
        TrackName(CHOOSE i \in 1..n : BulkKey(i) = k)]

\* The lengths next to a multiple of the batch size, the short ones and the
\* longest.
BulkLengths ==
    { n \in 0..MaxBulk :
        \/ n <= 3
        \/ n % BatchSize \in {0, 1, BatchSize - 1}
        \/ n = MaxBulk }

InitBulk ==
    \E n \in BulkLengths :
        /\ Loaded(FALSE, "rebuild", BulkWeb(n), << TrackName(1) >>, << >>,
                  BulkCache(n))
        /\ NoCall

NextBulk ==
    \/ main_rebuild
    \/ get_all_number_ones_from_decades
    \/ reorder_resolve
    \/ reorder_replace
    \/ reorder_append
    \/ main_persist

SpecBulk == InitBulk /\ [][NextBulk]_vars

-----------------------------------------------------------------------------
(* The text normalizer, character by character: a text is a sequence of    *)
(* one-character strings, and each regular expression is matched as re     *)
(* matches it (leftmost match, alternatives in order, greedy \s).          *)

\* \s: the white space of the model's alphabet.
Whitespace == {" "}

Least(S) == CHOOSE x \in S : \A y \in S : x <= y

Greatest(S) == CHOOSE x \in S : \A y \in S : y <= x

UpperCase ==
    << "A", "B", "C", "D", "E", "F", "G", "H", "I", "J", "K", "L", "M",
       "N", "O", "P", "Q", "R", "S", "T", "U", "V", "W", "X", "Y", "Z" >>

LowerCase ==
    << "a", "b", "c", "d", "e", "f", "g", "h", "i", "j", "k", "l", "m",
       "n", "o", "p", "q", "r", "s", "t", "u", "v", "w", "x", "y", "z" >>

\* str.lower(), character by character.
LowerChar(c) ==
    IF \E i \in 1..Len(UpperCase) : UpperCase[i] = c
    THEN LowerCase[CHOOSE i \in 1..Len(UpperCase) : UpperCase[i] = c]
    ELSE c

Lower(s) == [i \in 1..Len(s) |-> LowerChar(s[i])]

\* str.strip(chars): the leading and the trailing characters of chars go.
StripOf(s, chars) ==
    LET keep == { i \in 1..Len(s) : s[i] \notin chars }
    IN  IF keep = {} THEN << >> ELSE SubSeq(s, Least(keep), Greatest(keep))

\* The last position of the white space that starts at i: i - 1 if s[i]
\* is no white space.
SpaceEnd(s, i) ==
    LET stop == { j \in i..Len(s) : s[j] \notin Whitespace }
    IN  IF stop = {} THEN Len(s) ELSE Least(stop) - 1

\* Word w stands at position i of s.
WordAt(s, i, w) ==
    /\ i + Len(w) - 1 <= Len(s)
    /\ \A k \in 1..Len(w) : s[i + k - 1] = w[k]

\* Word w stands at position i of s, whatever the case of the letters of s
\* (re.IGNORECASE).
FoldedWordAt(s, i, w) ==
    /\ i + Len(w) - 1 <= Len(s)
    /\ \A k \in 1..Len(w) : LowerChar(s[i + k - 1]) = w[k]

\* The closing bracket of an opening one.
Closer(c) == IF c = "[" THEN "]" ELSE ")"

\* \[.*?\]|\(.*?\) matched at i: the position of its last character, 0 if
\* it does not match there.
BracketEnd(s, i) ==
    LET closers == { j \in (i + 1)..Len(s) : s[j] = Closer(s[i]) }
    IN  IF s[i] \in {"[", "("} /\ closers # {} THEN Least(closers) ELSE 0

\* re.sub(r"\[.*?\]|\(.*?\)", "", s), from position i on.
RECURSIVE RemoveBracketed(_, _)
RemoveBracketed(s, i) ==
    IF i > Len(s) THEN << >>
    ELSE IF BracketEnd(s, i) = 0 THEN << s[i] >> \o RemoveBracketed(s, i + 1)
    ELSE RemoveBracketed(s, BracketEnd(s, i) + 1)

\* clean_song_title: lines 135-138.
cleanSongTitle(song) ==
    StripOf(RemoveBracketed(StripOf(song, {"\""}), 1), Whitespace)

\* The words clean_artist_name cuts a credit at: featuring|feat\.|ft\.|with|&.
SplitWords ==
    { << "f", "e", "a", "t", "u", "r", "i", "n", "g" >>,
      << "f", "e", "a", "t", "." >>,
      << "f", "t", "." >>,
      << "w", "i", "t", "h" >>,
      << "&" >> }

\* \s+(featuring|feat\.|ft\.|with|&)\s+ matches from position i.
SplitterAt(s, i) ==
    LET k == SpaceEnd(s, i) + 1
    IN  /\ s[i] \in Whitespace
        /\ \E w \in SplitWords :
               /\ FoldedWordAt(s, k, w)
               /\ k + Len(w) <= Len(s)
               /\ s[k + Len(w)] \in Whitespace

\* clean_artist_name: lines 173-175.
cleanArtistName(artist) ==
    LET starts == { i \in 1..Len(artist) : SplitterAt(artist, i) }
    IN  StripOf(IF starts = {} THEN artist
                ELSE SubSeq(artist, 1, Least(starts) - 1), Whitespace)

\* The words base_artist_key takes for a separator: \s+and\s+|\s+with\s+.
JoinWords == { << "a", "n", "d" >>, << "w", "i", "t", "h" >> }

\* \s*&\s*|\s+and\s+|\s+with\s+ matched at i: the position of its last
\* character, 0 if it does not match there.
SeparatorEnd(s, i) ==
    LET k == SpaceEnd(s, i) + 1
        words == { w \in JoinWords : /\ WordAt(s, k, w)
                                     /\ k + Len(w) <= Len(s)
                                     /\ s[k + Len(w)] \in Whitespace }
    IN  IF k <= Len(s) /\ s[k] = "&" THEN SpaceEnd(s, k + 1)
        ELSE IF k > i /\ words # {}
        THEN SpaceEnd(s, k + Len(CHOOSE w \in words : TRUE))
        ELSE 0

\* re.sub(r"\s*&\s*|\s+and\s+|\s+with\s+", ",", s), from position i on.
RECURSIVE SubSeparators(_, _)
SubSeparators(s, i) ==
    IF i > Len(s) THEN << >>
    ELSE IF SeparatorEnd(s, i) = 0 THEN << s[i] >> \o SubSeparators(s, i + 1)
    ELSE << "," >> \o SubSeparators(s, SeparatorEnd(s, i) + 1)

\* str.split(c).
RECURSIVE SplitOn(_, _)
SplitOn(s, c) ==
    LET at == { i \in 1..Len(s) : s[i] = c }
    IN  IF at = {} THEN << s >>
        ELSE << SubSeq(s, 1, Least(at) - 1) >>
                 \o SplitOn(SubSeq(s, Least(at) + 1, Len(s)), c)

\* [p.strip() for p in s.split(c) if p.strip()].
Parts(s, c) ==
    LET pieces == SplitOn(s, c)
        NonEmpty(p) == p # << >>
    IN  SelectSeq([i \in 1..Len(pieces) |-> StripOf(pieces[i], Whitespace)],
                  NonEmpty)

\* base_artist_key: lines 234-251.
baseArtistKey(artist) ==
    LET a == SubSeparators(Lower(cleanArtistName(artist)), 1)
        parts == Parts(a, ",")
    IN  IF parts = << >> THEN a
        ELSE IF Len(parts) = 1 THEN parts[1]
        ELSE parts[1] \o << " ", "&", " " >> \o parts[2]

\* base_artist_set of search_spotify_track: lines 431-433.
base_artist_set(a) == Range(Parts(baseArtistKey(a), "&"))

-----------------------------------------------------------------------------
(* search_spotify_track: lines 405-494.  The song is one of the titles of  *)
(* the model's pages, the credits are texts.  A year that is None is 0     *)
(* here: the code tests chart_year and rel_year for truth only.  A track   *)
(* of the catalog is well formed, so that scoring it raises nothing.       *)

\* The most items a search returns in the model (limit=5 in the code).
MaxItems == 2

\* The popularity of a track lies in 0..MaxPopularity.
MaxPopularity == 100

\* The score at which a candidate ends the cascade: best_score >= 5.
GoodScore == 5

\* The score of a matching title: score += 5.
TitleScore == 5

\* score += int(pop) // 30.
PopularityStep == 30

NameA == << "A" >>
NameB == << "B" >>
NameC == << "C" >>
CreditAAndB == << "A", " ", "a", "n", "d", " ", "B" >>
CreditAAmpB == << "A", " ", "&", " ", "B" >>
CreditAFeatC == << "A", " ", "f", "e", "a", "t", ".", " ", "C" >>

\* The descriptions of the queries, in the order they are issued: lines
\* 412-429.
Queries(chart_year) ==
    (IF chart_year # 0
     THEN << "exact+year", "orig-artist+year", "song+year", "kw+year",
             "exact+year-range", "orig-artist+year-range" >>
     ELSE << >>)
    \o << "exact", "song only", "keywords", "orig-artist" >>

\* " & ".join(artists[:2]) if artists else "": line 457.
ArtistJoin(artists) ==
    IF artists = << >> THEN << >>
    ELSE IF Len(artists) = 1 THEN artists[1]
    ELSE artists[1] \o << " ", "&", " " >> \o artists[2]

\* Lines 467-468.
TitleBonus(title, song) ==
    IF base_song_key(title) = base_song_key(song) THEN TitleScore ELSE 0

\* Lines 469 and 471: min(inter1, 2) * 2.
ArtistBonus(artist_set, desired_artist_set) ==
    Min(Cardinality(artist_set \cap desired_artist_set), 2) * 2

\* The overlap with the original credit, without its cap.
OriginalBonusUncapped(artist_set, desired_orig_set) ==
    Cardinality(artist_set \cap desired_orig_set)

\* Lines 470 and 472: min(inter2, 1).
OriginalBonus(artist_set, desired_orig_set) ==
    Min(Cardinality(artist_set \cap desired_orig_set), 1)

\* Lines 473-477.
YearBonus(chart_year, rel_year) ==
    IF chart_year # 0 /\ rel_year # 0
    THEN IF rel_year = chart_year THEN 3
         ELSE IF rel_year - chart_year \in {-1, 1} THEN 1
         ELSE 0
    ELSE 0

\* Lines 479-480.
PopularityBonus(pop) == pop \div PopularityStep

\* Lines 453-480: the score of track tr for the arguments a, part by part.
Score(a, tr) ==
    LET artist_set == base_artist_set(ArtistJoin(tr.artists))
        title == TitleBonus(tr.name, a.song)
        artist == ArtistBonus(artist_set, base_artist_set(a.artist))
        original == OriginalBonus(artist_set, base_artist_set(a.original_artist))
        year == YearBonus(a.chart_year, tr.release_year)
        popularity == PopularityBonus(tr.popularity)
    IN  [id |-> tr.id, title |-> title, artist |-> artist,
         original |-> original, year |-> year, popularity |-> popularity,
         score |-> title + artist + original + year + popularity]

\* A candidate that replaces the best one on a tie as well.
ImprovesOrTies(score, bs) == score >= bs

\* Line 482: a candidate replaces the best one.
Improves(score, bs) == score > bs

\* Lines 452-485: best and best_score after the items from the k-th on,
\* given the scores of the items.
RECURSIVE BestAfter(_, _, _, _)
BestAfter(scores, k, b, bs) ==
    IF k > Len(scores) THEN [best |-> b, best_score |-> bs]
    ELSE IF Improves(scores[k].score, bs)
    THEN BestAfter(scores, k + 1, scores[k].id, scores[k].score)
    ELSE BestAfter(scores, k + 1, b, bs)

\* Line 487.
GoodEnough(b, bs) == b # None /\ bs >= GoodScore

Track(id, name, artists, release_year, popularity) ==
    [id |-> id, name |-> name, artists |-> artists,
     release_year |-> release_year, popularity |-> popularity]

\* The tracks of the catalog a search can return.
Catalog ==
    { Track(TrackName(1), "Hit", << NameA >>, 1996, 60),
      Track(TrackName(2), "Hit - Radio Edit", << NameA, NameC >>, 1996, 60),
      Track(TrackName(3), "Song", << NameA >>, 1997, 30),
      Track(TrackName(4), "Song", << NameB >>, 1996, 0),
      Track(TrackName(5), "Song", << NameA >>, 0, 29),
      Track(TrackName(6), "Song", << NameC >>, 1999, 0) }

\* What sp.search can answer: an exception, or up to MaxItems tracks, each
\* of them once.
Responses ==
    { [ok |-> FALSE, found |-> << >>] }
        \cup { [ok |-> TRUE, found |-> f] :
                  f \in { g \in UNION { [1..n -> Catalog] : n \in 0..MaxItems } :
                             NoDuplicates(g) } }

\* The arguments of a call: the entry's cleaned title and artist, its credit
\* as the page has it, and the year of its chart date.
Arguments(song, credit, chart_year) ==
    [song |-> song, artist |-> cleanArtistName(credit),
     original_artist |-> credit, chart_year |-> chart_year]

\* The script but for io.
offlineVars == << configVars, beforeVars, harvestVars, mainVars, addVars,
                 reorderVars, globalVars, fileVars, playlist, pc, phase, exc,
                 trace, appended >>

\* The script is not running.
Offline == Loaded(FALSE, "", BulkWeb(0), << >>, << >>, EmptyCache)

InitSearch ==
    /\ Offline
    /\ fn = "search_spotify_track"
    /\ \E credit \in {NameA, CreditAFeatC, CreditAAndB}, y \in {0, 1996} :
           arg = Arguments("Hit", credit, y)
    /\ res = << >>
    /\ query_i = 1
    /\ best = None
    /\ best_score = -1
    /\ scored = << >>

\* One query of the loop of lines 442-489: the search, the scoring of its
\* items, and the return of line 489; after the last query, the return of
\* lines 491-494.
search_query ==
    /\ fn = "search_spotify_track"
    /\ res = << >>
    /\ query_i <= Len(Queries(arg.chart_year))
    /\ \E response \in Responses :
        \E found \in { IF response.ok THEN response.found ELSE << >> } :
        \E scores \in { [k \in 1..Len(found) |-> Score(arg, found[k])] } :
        \E after \in { BestAfter(scores, 1, best, best_score) } :
            /\ io' = << Call("sp.search",
                             << Queries(arg.chart_year)[query_i] >>) >>
            /\ scored' = scores
            /\ best' = after.best
            /\ best_score' = after.best_score
            /\ IF GoodEnough(after.best, after.best_score)
               THEN res' = << after.best >> /\ query_i' = query_i
               ELSE /\ query_i' = query_i + 1
                    /\ res' = IF query_i = Len(Queries(arg.chart_year))
                              THEN << after.best >> ELSE res
    /\ UNCHANGED << offlineVars, fn, arg >>

NextSearch == search_query

SpecSearch == InitSearch /\ [][NextSearch]_vars

-----------------------------------------------------------------------------
(* The score of one candidate, on its own.                                 *)

\* The credits of an entry, as a chart page has them.
Credits == { NameA, CreditAFeatC, CreditAAndB, CreditAAmpB }

\* The artists of a track, as the catalog has them.
TrackArtists ==
    { << >>, << NameA >>, << NameB >>, << NameA, NameB >>, << CreditAAndB >> }

InitScore ==
    /\ Offline
    /\ fn = "score"
    /\ \E credit \in Credits, name \in {"Hit", "Hit - Radio Edit", "Song"},
          artists \in TrackArtists, release_year \in {0, 1995, 1996, 1997, 1999},
          popularity \in 0..MaxPopularity :
           arg = [call |-> Arguments("Hit", credit, 1996),
                  tr |-> Track(TrackName(1), name, artists, release_year,
                               popularity)]
    /\ res = << >>
    /\ query_i = 1
    /\ best = None
    /\ best_score = -1
    /\ scored = << >>

\* Lines 453-480 for one track.
score_candidate ==
    /\ fn = "score"
    /\ res = << >>
    /\ res' = << Score(arg.call, arg.tr) >>
    /\ UNCHANGED << scriptVars, fn, arg, query_i, best, best_score, scored >>

NextScore == score_candidate

SpecScore == InitScore /\ [][NextScore]_vars

-----------------------------------------------------------------------------
(* The normalizers, on their own: clean_song_title applied to a title and  *)
(* again to its result, and base_artist_key applied to two credits that    *)
(* name the same two artists.                                              *)

\* The most tokens a title is made of.
MaxTitleTokens == 5

\* What a title is made of: a quote, a letter, a space, a bracketed note,
\* a bracket.
TitleTokens ==
    { << "\"" >>, << "a" >>, << " " >>, << "(", "a", ")" >>,
      << "[", "a", "]" >>, << "(" >>, << ")" >> }

\* The texts made of up to n of the tokens.
RECURSIVE Texts(_, _)
Texts(tokens, n) ==
    IF n = 0 THEN { << >> }
    ELSE Texts(tokens, n - 1)
             \cup { t \o k : t \in Texts(tokens, n - 1), k \in tokens }

\* The names of artists.
Names == { NameA, NameB, NameC }

\* What follows the artists of a credit: nothing, or a guest.
Guests ==
    { << >> }
        \cup { << " " >> \o w \o << " " >> \o n :
                  w \in SplitWords \ { << "&" >> }, n \in Names }

Ampersand == << " ", "&", " " >>

And == << " ", "a", "n", "d", " " >>

InitTitle ==
    /\ fn = "clean_song_title"
    /\ arg \in Texts(TitleTokens, MaxTitleTokens)

InitCredits ==
    /\ fn = "base_artist_key"
    /\ \E first \in Names, second \in Names, g1 \in Guests, g2 \in Guests :
           arg = << first \o Ampersand \o second \o g1,
                    first \o And \o second \o g2 >>

InitText ==
    /\ Offline
    /\ InitTitle \/ InitCredits
    /\ res = << >>
    /\ query_i = 1
    /\ best = None
    /\ best_score = -1
    /\ scored = << >>

\* clean_song_title is called on the title, then on what it returned.
call_clean_song_title ==
    /\ fn = "clean_song_title"
    /\ Len(res) < 2
    /\ res' = Append(res, cleanSongTitle(IF res = << >> THEN arg
                                         ELSE res[Len(res)]))
    /\ UNCHANGED << scriptVars, fn, arg, query_i, best, best_score, scored >>

\* base_artist_key is called on either credit.
call_base_artist_key ==
    /\ fn = "base_artist_key"
    /\ res = << >>
    /\ res' = << baseArtistKey(arg[1]), baseArtistKey(arg[2]) >>
    /\ UNCHANGED << scriptVars, fn, arg, query_i, best, best_score, scored >>

NextText ==
    \/ call_clean_song_title
    \/ call_base_artist_key

SpecText == InitText /\ [][NextText]_vars


-----------------------------------------------------------------------------
(* What the properties speak of.                                           *)

\* The calls among `calls` that change the live playlist.
Mutations(calls) ==
    { k \in 1..Len(calls) :
        calls[k].op \in {"playlist_add_items", "playlist_replace_items"} }

\* The catalog searches among `calls`.
Searches(calls) == { k \in 1..Len(calls) : calls[k].op = "search" }

\* The canonical key of a chart entry.
KeyOf(s) == pair_key(s.song, s.artist)

IsPrefix(s, t) == Len(s) <= Len(t) /\ s = SubSeq(t, 1, Len(s))

\* The reorder pass has built its track-id list and is about to return or
\* to replace the playlist.
ReorderLoopDone == pc = "reorder" /\ ridx > Len(all_songs_sorted)

\* add_song_to_playlist is about to process songs[idx].
AtEntry == pc = "add" /\ idx <= Len(songs)

\* The reorder loop is about to process all_songs_sorted[ridx].
AtReorderEntry == pc = "reorder" /\ ridx <= Len(all_songs_sorted)

-----------------------------------------------------------------------------
\* C1: zero-result safety.  When the reorder pass has resolved no track id,
\* its next step returns: it calls neither playlist_replace_items nor
\* playlist_add_items, and the live playlist is what it was when the pass
\* began.
C1_ZeroResultSafety ==
    [][ (ReorderLoopDone /\ track_ids_sorted = << >>) =>
            /\ Mutations(io') = {}
            /\ playlist' = playlist_before
            /\ pc' = "persist" ]_vars

\* A rebuild that is no dry run, found entries, resolved none of them and
\* returned, with a playlist that was not empty.
C1_Witness ==
    /\ pc = "persist"
    /\ ~DEBUG
    /\ all_songs_sorted # << >>
    /\ track_ids_sorted = << >>
    /\ not_found_pairs # {}
    /\ playlist # << >>

\* C2: a rebuild that is no dry run and resolved a non-empty sequence
\* replaces the playlist by nothing and appends the sequence in consecutive
\* batches of at most 100 ids, in order: while it appends, the playlist is
\* the part of the sequence before the next batch, every append call
\* carries between 1 and 100 ids, and after the pass the playlist is the
\* sequence.
C2_RebuildInBatches ==
    /\ pc = "reorder_append" =>
          /\ batch_i % 100 = 0
          /\ batch_i < Len(track_ids_sorted)
          /\ playlist = SubSeq(track_ids_sorted, 1, batch_i)
    /\ \A k \in 1..Len(io) :
          io[k].op = "playlist_add_items" =>
              Len(io[k].items) >= 1 /\ Len(io[k].items) <= 100
    /\ (pc \in {"persist", "done"} /\ track_ids_sorted # << >>) =>
          /\ playlist = track_ids_sorted
          /\ data_file = track_ids_sorted

\* A finished rebuild of more than two batches whose last batch is not full.
C2_Witness ==
    /\ pc = "done"
    /\ Len(track_ids_sorted) > 200
    /\ Len(track_ids_sorted) % 100 # 0
    /\ playlist = track_ids_sorted
    /\ playlist_before # playlist

\* The entries the reorder loop has processed that are the first of their
\* key and are resolved.
Contributors ==
    { i \in 1..(ridx - 1) :
        /\ \A j \in 1..(i - 1) : KeyOf(all_songs_sorted[j]) # KeyOf(all_songs_sorted[i])
        /\ KeyOf(all_songs_sorted[i]) \in DOMAIN track_cache }

ResolvedId(i) == track_cache[KeyOf(all_songs_sorted[i])]

\* The earliest contributor of the p-th track id.
SourceOf(p) ==
    CHOOSE i \in Contributors :
        /\ ResolvedId(i) = track_ids_sorted[p]
        /\ \A j \in Contributors : ResolvedId(j) = track_ids_sorted[p] => i <= j

\* C3: the track-id sequence of the reorder pass holds no id twice; every id
\* comes from an entry that is the first of its key, so there is at most
\* one per key; the ids stand in the order of the entries they come from,
\* an id that several keys resolve to standing at the place of the earliest
\* of them; and every resolved first entry's id is in the sequence.
C3_RebuildSequence ==
    /\ NoDuplicates(track_ids_sorted)
    /\ \A p \in 1..Len(track_ids_sorted) :
          \E i \in Contributors : ResolvedId(i) = track_ids_sorted[p]
    /\ \A p, q \in 1..Len(track_ids_sorted) :
          p < q => SourceOf(p) < SourceOf(q)
    /\ \A i \in Contributors : ResolvedId(i) \in Range(track_ids_sorted)
    /\ Len(track_ids_sorted) <=
          Cardinality({ KeyOf(all_songs_sorted[i]) : i \in 1..(ridx - 1) })

\* Three entries of two keys, the later key resolving to the id of the
\* earlier: one track id is queued.
C3_Witness ==
    /\ ReorderLoopDone
    /\ Len(all_songs_sorted) = 3
    /\ KeyOf(all_songs_sorted[1]) = KeyOf(all_songs_sorted[3])
    /\ Cardinality(Contributors) = 2
    /\ Len(track_ids_sorted) = 1

\* C4: add_song_to_playlist calls playlist_add_items for a track id only if
\* the id is not in the membership fetched at start, not in the added list
\* and not appended earlier in the run, so no id is appended twice; and an
\* entry whose key was appended in this run is skipped with no search and no
\* append.
C4_AppendOnlyNew ==
    [][ /\ (pc = "add_attempt" /\ Mutations(io') # {}) =>
              /\ io'[1] = Call("playlist_add_items", << track_id >>)
              /\ track_id \notin fetched_tracks
              /\ track_id \notin Range(loaded_tracks)
              /\ track_id \notin Range(added_tracks)
              /\ track_id \notin Range(appended)
        /\ NoDuplicates(appended')
        /\ (AtEntry /\ KeyOf(songs[idx]) \in added_song_artist_pairs) =>
              /\ io' = << >>
              /\ pc' = "add"
              /\ idx' = idx + 1
              /\ playlist' = playlist
              /\ track_cache' = track_cache ]_vars

\* An entry with the key of an entry appended earlier in the run has just
\* been skipped.
C4_Witness ==
    /\ pc = "add"
    /\ idx > 2
    /\ io = << >>
    /\ appended # << >>
    /\ KeyOf(songs[idx - 1]) \in added_song_artist_pairs
    /\ \E j \in 1..(idx - 2) : KeyOf(songs[j]) = KeyOf(songs[idx - 1])
    /\ fetched_tracks # {}

\* C5: when the key of the entry to resolve is a key of the cache, the
\* resolution, in add_song_to_playlist and in the reorder pass, makes no
\* search, leaves the cache as it is and yields the cached id.
C5_CacheHitNoSearch ==
    [][ /\ (AtEntry /\ KeyOf(songs[idx]) \in DOMAIN track_cache) =>
              /\ Searches(io') = {}
              /\ track_cache' = track_cache
              /\ pc' = "add_attempt" => track_id' = track_cache[KeyOf(songs[idx])]
        /\ (AtReorderEntry /\ KeyOf(all_songs_sorted[ridx]) \in DOMAIN track_cache) =>
              /\ Searches(io') = {}
              /\ track_cache' = track_cache
              /\ KeyOf(all_songs_sorted[ridx]) \notin unique_pairs =>
                    /\ track_cache[KeyOf(all_songs_sorted[ridx])] \in seen_track_ids'
                    /\ track_ids_sorted' \in
                          { track_ids_sorted,
                            Append(track_ids_sorted,
                                   track_cache[KeyOf(all_songs_sorted[ridx])]) } ]_vars

\* The reorder pass has just resolved, with no search, an entry whose key
\* the cache held from the start, after add_song_to_playlist appended the
\* track of that key.
C5_Witness ==
    /\ pc = "reorder"
    /\ ridx > 1
    /\ io = << >>
    /\ KeyOf(all_songs_sorted[ridx - 1]) \in DOMAIN cache_file
    /\ KeyOf(all_songs_sorted[ridx - 1]) \in added_song_artist_pairs
    /\ \A j \in 1..(ridx - 2) :
          KeyOf(all_songs_sorted[j]) # KeyOf(all_songs_sorted[ridx - 1])
    /\ track_ids_sorted # << >>


\* The append call of add_song_to_playlist for the current track id.
AddCall == Call("playlist_add_items", << track_id >>)

\* The state of the run that an append changes.
appendState == << playlist, added_tracks, existing_playlist_tracks,
                  added_song_artist_pairs, appended, songs >>

\* C6: the append of one entry is attempted at most 3 times.  An attempt
\* that times out is followed by a sleep of 2 seconds and changes neither
\* the playlist nor the added list, the membership set, the processed keys
\* or the entries to process; after the first and the second time-out the
\* append is attempted again, after the third the run goes on with the next
\* entry; an attempt that succeeds is the last one.
C6_RetryOnTimeout ==
    [][ pc = "add_attempt" =>
          /\ attempt < 3
          /\ Mutations(io') = {1}
          /\ io'[1] = AddCall
          /\ Len(io') = 2 =>
                /\ io'[2] = Sleep(2)
                /\ UNCHANGED appendState
                /\ exc' = ""
                /\ track_id \notin Range(added_tracks')
                /\ attempt < 2 =>
                      /\ pc' = "add_attempt"
                      /\ attempt' = attempt + 1
                      /\ UNCHANGED << idx, track_id >>
                /\ attempt = 2 => pc' = "add" /\ idx' = idx + 1
          /\ appended' # appended =>
                /\ appended' = Append(appended, track_id)
                /\ pc' = "add"
                /\ idx' = idx + 1 ]_vars

\* The third attempt for the first of several entries has just timed out:
\* the id is nowhere recorded and the second entry is next.
C6_Witness ==
    /\ pc = "add"
    /\ idx = 2
    /\ Len(songs) > 1
    /\ Len(io) = 2
    /\ io[2] = Sleep(2)
    /\ io[1].items[1] \notin Range(added_tracks)
    /\ io[1].items[1] \notin existing_playlist_tracks
    /\ KeyOf(songs[1]) \notin added_song_artist_pairs
    /\ appended = << >>

\* C7: a failure of the append or of the search for one entry never ends the
\* run: no exception leaves add_song_to_playlist.
C7_EntryFailureNeverAborts ==
    ~(pc = "aborted" /\ exc = "add_song_to_playlist")

\* C8: under DEBUG no step calls playlist_add_items or
\* playlist_replace_items and no step changes the live playlist, whatever
\* the run mode.
C8_DryRunMutatesNothing ==
    [][ DEBUG => Mutations(io') = {} /\ playlist' = playlist ]_vars

\* A dry run of the default mode that harvested entries, searched the
\* catalog for them in both passes, once in vain and once with a result, and
\* is about to write its files.
C8_Witness ==
    /\ DEBUG
    /\ pc = "persist"
    /\ trace = << "backfill", "reorder" >>
    /\ songs # << >>
    /\ not_found_pairs # {}
    /\ track_ids_sorted # << >>
    /\ cache_file = EmptyCache
    /\ track_cache # EmptyCache
    /\ playlist = playlist_before

IsSortedByDate(s) == \A i, j \in 1..Len(s) : i < j => s[i].date <= s[j].date

\* The parts of __main__ a default run goes through.
DefaultTrace ==
    IF loaded_tracks = << >> THEN << "backfill", "reorder", "persist" >>
    ELSE << "latest", "reorder", "persist" >>

\* C9: in the default mode the run is a backfill exactly when the loaded
\* added list is empty and otherwise processes the latest entry, and that
\* only if there is one dated on or after the cutoff; the backfill processes
\* the harvested entries in the order of their dates; the reorder pass
\* follows in both cases; and the cache and the not-found log are written
\* only when that pass has returned.
C9_DefaultMode ==
    [][ /\ RUN_ACTION \notin {"clear", "rebuild", "reorder"} =>
              /\ IsPrefix(trace', DefaultTrace)
              /\ phase' = "backfill" => IsSortedByDate(songs')
              /\ (trace'[1] = "latest" /\ pc' # "latest") =>
                    songs' = IF latest' # << >> /\ latest'[1].date >= 19960207
                             THEN latest' ELSE << >>
              /\ (AtEntry /\ pc' # "aborted") => pc' = "add_attempt" \/ idx' = idx + 1
        /\ (\E k \in 1..Len(io') :
                io'[k].op \in {"write track_cache.json", "write not_found.json"}
                /\ RUN_ACTION # "clear") =>
              /\ pc = "persist"
              /\ trace'[Len(trace') - 1] = "reorder" ]_vars

\* A later run whose latest page held only an entry before the cutoff: the
\* entry was not processed, the reorder pass ran and the files were written.
C9_Witness ==
    /\ pc = "done"
    /\ trace = << "latest", "reorder", "persist" >>
    /\ latest # << >>
    /\ latest[1].date < 19960207
    /\ songs = << >>
    /\ all_songs_sorted # << >>

\* C10: a failure to fetch one page, by the network or by the status, is
\* never fatal to the harvest: no exception leaves
\* get_all_number_ones_from_decades.
C10_FetchFailureNeverFatal ==
    ~(pc = "aborted" /\ exc = "get_all_number_ones_from_decades")

-----------------------------------------------------------------------------
(* The resolver's cascade.                                                 *)

\* The highest score among the scored items, -1 if there is none.
TopScore(scores) ==
    IF scores = << >> THEN -1
    ELSE Greatest({ scores[k].score : k \in 1..Len(scores) })

\* The id of the first item that has the highest score.
FirstTop(scores) ==
    scores[Least({ k \in 1..Len(scores) :
                      scores[k].score = TopScore(scores) })].id

\* C11: the resolver issues its queries in cascade order, and none after it
\* has returned; after the candidates of a query, best is the candidate with
\* the highest score of all seen so far, the first seen among equals; if
\* that score is at least 5 the resolver returns it at once; otherwise it
\* goes on to the next query, and after the last one it returns the best
\* candidate, or None if no query returned a candidate.
C11_Cascade ==
    [][ fn = "search_spotify_track" =>
          LET qs == Queries(arg.chart_year)
              top == TopScore(scored')
          IN  /\ res = << >>
              /\ query_i <= Len(qs)
              /\ io' = << Call("sp.search", << qs[query_i] >>) >>
              /\ best_score' = IF top > best_score THEN top ELSE best_score
              /\ best' = IF top > best_score THEN FirstTop(scored') ELSE best
              /\ (best' = None) <=> (best_score' = -1)
              /\ IF best_score' >= 5
                 THEN res' = << best' >>
                 ELSE IF query_i < Len(qs)
                 THEN res' = << >> /\ query_i' = query_i + 1
                 ELSE res' = << best' >> ]_vars

\* The second query or a later one, not the last, returned two candidates
\* of the same score, at least 5 and higher than any before, and the
\* resolver returned the first of them.
C11_Witness ==
    /\ fn = "search_spotify_track"
    /\ 1 < query_i
    /\ query_i < Len(Queries(arg.chart_year))
    /\ Len(scored) = 2
    /\ scored[1].id # scored[2].id
    /\ scored[1].score = scored[2].score
    /\ scored[1].score >= 5
    /\ best_score = scored[1].score
    /\ res = << scored[1].id >>

-----------------------------------------------------------------------------
(* The normalizers.                                                        *)

\* C12: two credits that name the same two artists, joined by " & " in one
\* and by " and " in the other, with or without a guest after them, have
\* the same artist key.
C12_SameKey ==
    (fn = "base_artist_key" /\ res # << >>) => res[1] = res[2]

\* C13: clean_song_title is idempotent: applied to what it returned, it
\* returns the same text.
C13_Idempotent ==
    (fn = "clean_song_title" /\ Len(res) = 2) => res[2] = res[1]

-----------------------------------------------------------------------------
(* The candidate score.                                                    *)

\* C14 as stated: the overlap of the artist names (with the cleaned artist
\* set plus with the original artist set) adds at most 4 to the score of a
\* candidate, and the popularity at most 3.
C14_OverlapAtMostFour ==
    (fn = "score" /\ res # << >>) =>
        /\ res[1].artist + res[1].original <= 4
        /\ res[1].popularity <= 3

\* C14, amended: the overlap with the cleaned artist set adds at most 4 to
\* the score of a candidate and the overlap with the original artist set at
\* most 1, the two together at most 5; the popularity, in 0..100, adds at
\* most 3.
C14_OverlapAtMostFive ==
    (fn = "score" /\ res # << >>) =>
        /\ res[1].artist <= 4
        /\ res[1].original <= 1
        /\ res[1].artist + res[1].original <= 5
        /\ res[1].popularity <= 3

\* A candidate that shares two names with the entry's cleaned artist and
\* with its original credit, and whose popularity adds 3.
C14_Witness ==
    /\ fn = "score"
    /\ res # << >>
    /\ res[1].artist + res[1].original = 5
    /\ res[1].popularity = 3
    /\ res[1].score = res[1].title + res[1].year + 8

====
